---- MODULE Spec2Model ----
(***************************************************************************)
(* HomeWizard config flow (homeassistant/components/homewizard/            *)
(* config_flow.py).  Several flow instances run against one shared store   *)
(* of config entries.  A handler suspends only at the probe's              *)
(* "await energy_api.initialize()"; everything before and everything after *)
(* that await is one atomic step of the event loop.                        *)
(***************************************************************************)
EXTENDS Integers, Sequences, FiniteSets, TLC

\* ------------------------------------------------------------------------
\* Bounds and input domains
\* ------------------------------------------------------------------------

\* the flow instances that can be in progress at the same time
Flows == {1, 2}

\* number of flow instances constructed in one run, the first ones included
MaxStarts == 4

Addresses == {"10.0.0.5", "10.0.0.6"}

Serials == {"abc123", "def456"}

ProductNames == {"P1 Meter"}

\* product types a device descriptor can report; "HWE-XX" is not supported
DeviceProductTypes == {"HWE-P1", "HWE-XX"}

\* product types an announcement can advertise
AnnouncedProductTypes == {"HWE-P1"}

ApiVersions == {"v1", "v2"}

\* ------------------------------------------------------------------------
\* Program constants
\* ------------------------------------------------------------------------

CONF_IP_ADDRESS == "ip_address"

CONF_PRODUCT_NAME == "product_name"

CONF_PRODUCT_TYPE == "product_type"

CONF_SERIAL == "serial"

SUPPORTED_DEVICES == {"HWE-P1", "HWE-SKT", "SDM230-wifi", "SDM630-wifi"}

\* Python's None where a mapping or an object is expected (absent input,
\* absent device, unset placeholders)
None == [k \in {"None"} |-> TRUE]

\* Python's None where a string is expected (unset unique id, unset source)
NoneStr == "<None>"

\* ------------------------------------------------------------------------
\* State
\* ------------------------------------------------------------------------

VARIABLES
    entries,      \* the record store: set of [unique_id, title, data]
    pc,           \* per flow: where the flow instance stands
    config,       \* per flow: self.config, the staged configuration
    context,      \* per flow: self.context (source, unique_id, title_placeholders, confirm_only)
    result,       \* per flow: the FlowResult the last finished step returned
    ip_address,   \* per flow: the address the suspended handler is probing
    energy_api,   \* per flow: the probe connections of the flow (opens, closes, open)
    started       \* number of flow instances constructed so far

vars == <<entries, pc, config, context, result, ip_address, energy_api, started>>

\* self.config = {}
EmptyConfig == [k \in {} |-> ""]

NoResult == [type |-> "none"]

NoContext ==
    [source |-> NoneStr, unique_id |-> NoneStr, title_placeholders |-> None,
     confirm_only |-> FALSE]

NoApi == [opens |-> 0, closes |-> 0, open |-> FALSE]

\* ------------------------------------------------------------------------
\* Inputs
\* ------------------------------------------------------------------------

\* user_input of async_step_user: None or {ip_address: str}
UserInputs == {None} \cup {[k \in {CONF_IP_ADDRESS} |-> a] : a \in Addresses}

RequiredProperties == {"api_enabled", "path", "product_name", "product_type", "serial"}

PropertyValues(k) ==
    CASE k = "api_enabled" -> {"1", "0"}
      [] k = "path" -> {"/api/v1", "/api/v2"}
      [] k = "product_name" -> ProductNames
      [] k = "product_type" -> AnnouncedProductTypes
      [] k = "serial" -> Serials

AllPropertyValues == UNION {PropertyValues(k) : k \in RequiredProperties}

\* discovery_info.properties: a mapping over any subset of the five keys
PropertyMaps ==
    UNION {{p \in [D -> AllPropertyValues] : \A k \in D : p[k] \in PropertyValues(k)} :
           D \in SUBSET RequiredProperties}

\* zeroconf.ZeroconfServiceInfo, as far as the flow reads it
Announcements == [host : Addresses, properties : PropertyMaps]

\* energy_api.device after initialize(): None or a descriptor
Descriptors ==
    [api_version : ApiVersions, product_type : DeviceProductTypes,
     product_name : ProductNames, serial : Serials]

Devices == {None} \cup Descriptors

\* how "await energy_api.initialize()" under async_timeout.timeout(10) ends
InitOutcomes == {"ok", "disabled", "error", "timeout"}

\* user_input of async_step_discovery_confirm: None, {} or a non-empty mapping
ConfirmInputs == {None, EmptyConfig, [k \in {"confirm"} |-> "yes"]}

\* ------------------------------------------------------------------------
\* The flow framework and the record store, as the flow uses them
\* ------------------------------------------------------------------------

\* self.async_abort(reason=...), and an AbortFlow(reason) caught by the manager
AsyncAbort(reason) == [type |-> "abort", reason |-> reason]

\* self.async_show_form(step_id=..., data_schema=..., description_placeholders=...)
AsyncShowForm(step_id, data_schema, description_placeholders) ==
    [type |-> "form", step_id |-> step_id, data_schema |-> data_schema,
     description_placeholders |-> description_placeholders]

\* self.async_create_entry(title=..., data=...)
AsyncCreateEntry(title, data) == [type |-> "create_entry", title |-> title, data |-> data]

\* the store takes the record of a finished flow: a record already held under
\* the flow's unique id is replaced, so the store keeps one record per key
StoreAdd(es, unique_id, created) ==
    {e \in es : e.unique_id # unique_id}
        \cup {[unique_id |-> unique_id, title |-> created.title, data |-> created.data]}

\* {**entry.data, **updates}
MergeData(data, updates) ==
    [k \in DOMAIN data \cup DOMAIN updates |->
        IF k \in DOMAIN updates THEN updates[k] ELSE data[k]]

\* self._abort_if_unique_id_configured(updates=...): a record with this unique
\* id gets its data updated and the flow aborts
AbortIfUniqueIdConfigured(es, unique_id, updates) ==
    LET hit == {e \in es : e.unique_id = unique_id}
    IN [raised |-> hit # {},
        entries |-> (es \ hit) \cup {[e EXCEPT !.data = MergeData(@, updates)] : e \in hit}]

\* ------------------------------------------------------------------------
\* Helpers of the flow
\* ------------------------------------------------------------------------

\* the title without the serial
EntryTitleNoSerial(product_name, serial) == product_name

\* f"{product_name} ({serial})"
EntryTitle(product_name, serial) == product_name \o " (" \o serial \o ")"

\* f"{entry_info[CONF_PRODUCT_TYPE]}_{entry_info[CONF_SERIAL]}"
UniqueId(entry_info) == entry_info[CONF_PRODUCT_TYPE] \o "_" \o entry_info[CONF_SERIAL]

\* {CONF_IP_ADDRESS: ...}
IpData(address) == [k \in {CONF_IP_ADDRESS} |-> address]

\* energy_api = aiohwenergy.HomeWizardEnergy(ip_address); await energy_api.initialize()
ProbeOpen(api) == [api EXCEPT !.opens = @ + 1, !.open = TRUE]

\* close() at the end of the try body instead of in finally
ProbeCloseOnSuccessOnly(api, outcome) ==
    IF outcome = "ok" THEN [api EXCEPT !.closes = @ + 1, !.open = FALSE] ELSE api

\* finally: await energy_api.close()
ProbeClose(api, outcome) == [api EXCEPT !.closes = @ + 1, !.open = FALSE]

\* the probe with "except Exception" ahead of "except aiohwenergy.DisabledError"
TryConnectAndFetchGenericFirst(outcome, device) ==
    IF outcome # "ok" THEN [raised |-> TRUE, reason |-> "unknown_error"]
    ELSE IF device = None THEN [raised |-> TRUE, reason |-> "unknown_error"]
    ELSE IF device.api_version # "v1"
        THEN [raised |-> TRUE, reason |-> "unsupported_api_version"]
    ELSE IF device.product_type \notin SUPPORTED_DEVICES
        THEN [raised |-> TRUE, reason |-> "device_not_supported"]
    ELSE [raised |-> FALSE,
          value |-> [product_name |-> device.product_name,
                     product_type |-> device.product_type,
                     serial |-> device.serial]]

\* the probe giving connection failures a reason code of their own
TryConnectAndFetchCannotConnect(outcome, device) ==
    IF outcome = "disabled" THEN [raised |-> TRUE, reason |-> "api_not_enabled"]
    ELSE IF outcome # "ok" THEN [raised |-> TRUE, reason |-> "cannot_connect"]
    ELSE IF device = None THEN [raised |-> TRUE, reason |-> "unknown_error"]
    ELSE IF device.api_version # "v1"
        THEN [raised |-> TRUE, reason |-> "unsupported_api_version"]
    ELSE IF device.product_type \notin SUPPORTED_DEVICES
        THEN [raised |-> TRUE, reason |-> "device_not_supported"]
    ELSE [raised |-> FALSE,
          value |-> [product_name |-> device.product_name,
                     product_type |-> device.product_type,
                     serial |-> device.serial]]

\* the probe without the check of the product type
TryConnectAndFetchAnyProduct(outcome, device) ==
    IF outcome = "disabled" THEN [raised |-> TRUE, reason |-> "api_not_enabled"]
    ELSE IF outcome # "ok" THEN [raised |-> TRUE, reason |-> "unknown_error"]
    ELSE IF device = None THEN [raised |-> TRUE, reason |-> "unknown_error"]
    ELSE IF device.api_version # "v1"
        THEN [raised |-> TRUE, reason |-> "unsupported_api_version"]
    ELSE [raised |-> FALSE,
          value |-> [product_name |-> device.product_name,
                     product_type |-> device.product_type,
                     serial |-> device.serial]]

\* the probe checking the product type ahead of the API version
TryConnectAndFetchProductFirst(outcome, device) ==
    IF outcome = "disabled" THEN [raised |-> TRUE, reason |-> "api_not_enabled"]
    ELSE IF outcome # "ok" THEN [raised |-> TRUE, reason |-> "unknown_error"]
    ELSE IF device = None THEN [raised |-> TRUE, reason |-> "unknown_error"]
    ELSE IF device.product_type \notin SUPPORTED_DEVICES
        THEN [raised |-> TRUE, reason |-> "device_not_supported"]
    ELSE IF device.api_version # "v1"
        THEN [raised |-> TRUE, reason |-> "unsupported_api_version"]
    ELSE [raised |-> FALSE,
          value |-> [product_name |-> device.product_name,
                     product_type |-> device.product_type,
                     serial |-> device.serial]]

\* _async_try_connect_and_fetch from the end of initialize() on: what it raises
\* or returns
TryConnectAndFetch(outcome, device) ==
    IF outcome = "disabled" THEN [raised |-> TRUE, reason |-> "api_not_enabled"]
    ELSE IF outcome # "ok" THEN [raised |-> TRUE, reason |-> "unknown_error"]
    ELSE IF device = None THEN [raised |-> TRUE, reason |-> "unknown_error"]
    ELSE IF device.api_version # "v1"
        THEN [raised |-> TRUE, reason |-> "unsupported_api_version"]
    ELSE IF device.product_type \notin SUPPORTED_DEVICES
        THEN [raised |-> TRUE, reason |-> "device_not_supported"]
    ELSE [raised |-> FALSE,
          value |-> [product_name |-> device.product_name,
                     product_type |-> device.product_type,
                     serial |-> device.serial]]

\* the validation without the check for "product_name"
ValidateDiscoveryFourKeys(properties) ==
    IF \/ "api_enabled" \notin DOMAIN properties
       \/ "path" \notin DOMAIN properties
       \/ "product_type" \notin DOMAIN properties
       \/ "serial" \notin DOMAIN properties
    THEN "invalid_discovery_parameters"
    ELSE IF properties["path"] # "/api/v1" THEN "unsupported_api_version"
    ELSE IF properties["api_enabled"] # "1" THEN "api_not_enabled"
    ELSE NoneStr

\* the validation with the api_enabled check ahead of the path check
ValidateDiscoveryEnabledFirst(properties) ==
    IF \/ "api_enabled" \notin DOMAIN properties
       \/ "path" \notin DOMAIN properties
       \/ "product_name" \notin DOMAIN properties
       \/ "product_type" \notin DOMAIN properties
       \/ "serial" \notin DOMAIN properties
    THEN "invalid_discovery_parameters"
    ELSE IF properties["api_enabled"] # "1" THEN "api_not_enabled"
    ELSE IF properties["path"] # "/api/v1" THEN "unsupported_api_version"
    ELSE NoneStr

\* the validation testing api_enabled for truth ("0" is a true string)
ValidateDiscoveryTruthy(properties) ==
    IF \/ "api_enabled" \notin DOMAIN properties
       \/ "path" \notin DOMAIN properties
       \/ "product_name" \notin DOMAIN properties
       \/ "product_type" \notin DOMAIN properties
       \/ "serial" \notin DOMAIN properties
    THEN "invalid_discovery_parameters"
    ELSE IF properties["path"] # "/api/v1" THEN "unsupported_api_version"
    ELSE IF properties["api_enabled"] = "" THEN "api_not_enabled"
    ELSE NoneStr

\* async_step_zeroconf, "Validate doscovery entry": the reason of the abort, or
\* NoneStr when the announcement passes
ValidateDiscovery(properties) ==
    IF \/ "api_enabled" \notin DOMAIN properties
       \/ "path" \notin DOMAIN properties
       \/ "product_name" \notin DOMAIN properties
       \/ "product_type" \notin DOMAIN properties
       \/ "serial" \notin DOMAIN properties
    THEN "invalid_discovery_parameters"
    ELSE IF properties["path"] # "/api/v1" THEN "unsupported_api_version"
    ELSE IF properties["api_enabled"] # "1" THEN "api_not_enabled"
    ELSE NoneStr

\* the identity check calling _abort_if_unique_id_configured() without updates
SetAndCheckUniqueIdNoUpdates(es, entry_info) ==
    LET unique_id == UniqueId(entry_info)
        chk == AbortIfUniqueIdConfigured(es, unique_id, EmptyConfig)
    IN [unique_id |-> unique_id, raised |-> chk.raised, entries |-> chk.entries]

\* _async_set_and_check_unique_id: the unique id it sets, whether it aborts,
\* and the store it leaves
SetAndCheckUniqueId(es, entry_info) ==
    LET unique_id == UniqueId(entry_info)
        chk == AbortIfUniqueIdConfigured(es, unique_id, IpData(entry_info[CONF_IP_ADDRESS]))
    IN [unique_id |-> unique_id, raised |-> chk.raised, entries |-> chk.entries]

\* the confirmation step with the product name alone as title placeholder
DiscoveryConfirmNameOnly(cfg, ctx, user_input) ==
    IF user_input # None
    THEN [result |-> AsyncCreateEntry(EntryTitle(cfg[CONF_PRODUCT_NAME], cfg[CONF_SERIAL]),
                                      IpData(cfg[CONF_IP_ADDRESS])),
          context |-> ctx]
    ELSE [result |-> AsyncShowForm("discovery_confirm", None,
                        [product_type |-> cfg[CONF_PRODUCT_TYPE],
                         serial |-> cfg[CONF_SERIAL],
                         ip_address |-> cfg[CONF_IP_ADDRESS]]),
          context |-> [ctx EXCEPT
                        !.confirm_only = TRUE,
                        !.title_placeholders = [name |-> cfg[CONF_PRODUCT_NAME]]]]

\* the confirmation step testing "if user_input:" instead of "is not None"
DiscoveryConfirmTruthy(cfg, ctx, user_input) ==
    IF user_input # None /\ DOMAIN user_input # {}
    THEN [result |-> AsyncCreateEntry(EntryTitle(cfg[CONF_PRODUCT_NAME], cfg[CONF_SERIAL]),
                                      IpData(cfg[CONF_IP_ADDRESS])),
          context |-> ctx]
    ELSE [result |-> AsyncShowForm("discovery_confirm", None,
                        [product_type |-> cfg[CONF_PRODUCT_TYPE],
                         serial |-> cfg[CONF_SERIAL],
                         ip_address |-> cfg[CONF_IP_ADDRESS]]),
          context |-> [ctx EXCEPT
                        !.confirm_only = TRUE,
                        !.title_placeholders =
                            [name |-> EntryTitle(cfg[CONF_PRODUCT_NAME], cfg[CONF_SERIAL])]]]

\* async_step_discovery_confirm on a flow with staged configuration cfg and
\* context ctx: the result it returns and the context it leaves
DiscoveryConfirm(cfg, ctx, user_input) ==
    IF user_input # None
    THEN [result |-> AsyncCreateEntry(EntryTitle(cfg[CONF_PRODUCT_NAME], cfg[CONF_SERIAL]),
                                      IpData(cfg[CONF_IP_ADDRESS])),
          context |-> ctx]
    ELSE [result |-> AsyncShowForm("discovery_confirm", None,
                        [product_type |-> cfg[CONF_PRODUCT_TYPE],
                         serial |-> cfg[CONF_SERIAL],
                         ip_address |-> cfg[CONF_IP_ADDRESS]]),
          context |-> [ctx EXCEPT
                        !.confirm_only = TRUE,
                        !.title_placeholders =
                            [name |-> EntryTitle(cfg[CONF_PRODUCT_NAME], cfg[CONF_SERIAL])]]]

\* what a step that returned res does to the flow and to the store
PcAfter(res) ==
    CASE res.type = "abort" -> "aborted"
      [] res.type = "create_entry" -> "completed"
      [] res.type = "form" /\ res.step_id = "user" -> "awaiting_user_input"
      [] res.type = "form" /\ res.step_id = "discovery_confirm" ->
            "awaiting_discovery_confirmation"

\* ------------------------------------------------------------------------
\* Init and actions
\* ------------------------------------------------------------------------

Init ==
    /\ entries = {}
    /\ pc = [f \in Flows |-> "start"]
    /\ config = [f \in Flows |-> EmptyConfig]
    /\ context = [f \in Flows |-> NoContext]
    /\ result = [f \in Flows |-> NoResult]
    /\ ip_address = [f \in Flows |-> NoneStr]
    /\ energy_api = [f \in Flows |-> NoApi]
    /\ started = Cardinality(Flows)

\* async_step_user up to its return or up to the await of the probe
AsyncStepUser(f, user_input) ==
    /\ pc[f] \in {"start", "awaiting_user_input"}
    /\ context[f].source \in {NoneStr, "user"}
    /\ context' = [context EXCEPT ![f].source = "user"]
    /\ IF user_input = None
       THEN /\ result' = [result EXCEPT ![f] =
                            AsyncShowForm("user", {CONF_IP_ADDRESS}, None)]
            /\ pc' = [pc EXCEPT ![f] = PcAfter(result'[f])]
            /\ UNCHANGED <<ip_address, energy_api>>
       ELSE /\ ip_address' = [ip_address EXCEPT ![f] = user_input[CONF_IP_ADDRESS]]
            /\ energy_api' = [energy_api EXCEPT ![f] = ProbeOpen(@)]
            /\ pc' = [pc EXCEPT ![f] = "user_probe"]
            /\ UNCHANGED result
    /\ UNCHANGED <<entries, config, started>>

\* async_step_user from the end of initialize() to its return
AsyncStepUserResume(f, outcome, device) ==
    /\ pc[f] = "user_probe"
    /\ energy_api' = [energy_api EXCEPT ![f] = ProbeClose(@, outcome)]
    /\ ip_address' = [ip_address EXCEPT ![f] = NoneStr]
    /\ LET fetched == TryConnectAndFetch(outcome, device)
       IN IF fetched.raised
          THEN /\ result' = [result EXCEPT ![f] = AsyncAbort(fetched.reason)]
               /\ UNCHANGED <<entries, context>>
          ELSE LET device_info == fetched.value
                   chk == SetAndCheckUniqueId(entries,
                            [ip_address |-> ip_address[f],
                             product_type |-> device_info[CONF_PRODUCT_TYPE],
                             serial |-> device_info[CONF_SERIAL]])
                   created == AsyncCreateEntry(
                                EntryTitle(device_info[CONF_PRODUCT_NAME],
                                           device_info[CONF_SERIAL]),
                                IpData(ip_address[f]))
               IN /\ context' = [context EXCEPT ![f].unique_id = chk.unique_id]
                  /\ IF chk.raised
                     THEN /\ result' = [result EXCEPT ![f] = AsyncAbort("already_configured")]
                          /\ entries' = chk.entries
                     ELSE /\ result' = [result EXCEPT ![f] = created]
                          /\ entries' = StoreAdd(entries, chk.unique_id, created)
    /\ pc' = [pc EXCEPT ![f] = PcAfter(result'[f])]
    /\ UNCHANGED <<config, started>>

\* the discovery step probing the host ahead of the identity check, as the
\* user step does
AsyncStepZeroconfProbeFirst(f, discovery_info) ==
    /\ pc[f] = "start"
    /\ context[f].source = NoneStr
    /\ context' = [context EXCEPT ![f].source = "zeroconf"]
    /\ LET early == ValidateDiscovery(discovery_info.properties)
       IN IF early # NoneStr
          THEN /\ result' = [result EXCEPT ![f] = AsyncAbort(early)]
               /\ pc' = [pc EXCEPT ![f] = PcAfter(result'[f])]
               /\ UNCHANGED <<ip_address, energy_api>>
          ELSE /\ ip_address' = [ip_address EXCEPT ![f] = discovery_info.host]
               /\ energy_api' = [energy_api EXCEPT ![f] = ProbeOpen(@)]
               /\ pc' = [pc EXCEPT ![f] = "zeroconf_probe"]
               /\ UNCHANGED result
    /\ UNCHANGED <<entries, config, started>>

\* the discovery step staging the announced data before the probe
AsyncStepZeroconfStagingEarly(f, discovery_info) ==
    /\ pc[f] = "start"
    /\ context[f].source = NoneStr
    /\ LET properties == discovery_info.properties
           early == ValidateDiscovery(properties)
       IN IF early # NoneStr
          THEN /\ result' = [result EXCEPT ![f] = AsyncAbort(early)]
               /\ pc' = [pc EXCEPT ![f] = PcAfter(result'[f])]
               /\ context' = [context EXCEPT ![f].source = "zeroconf"]
               /\ UNCHANGED <<entries, config, ip_address, energy_api>>
          ELSE LET chk == SetAndCheckUniqueId(entries,
                            [ip_address |-> discovery_info.host,
                             product_type |-> properties["product_type"],
                             serial |-> properties["serial"]])
               IN /\ context' = [context EXCEPT ![f].source = "zeroconf",
                                                ![f].unique_id = chk.unique_id]
                  /\ entries' = chk.entries
                  /\ config' = [config EXCEPT ![f] =
                                    [ip_address |-> discovery_info.host,
                                     product_type |-> properties["product_type"],
                                     product_name |-> properties["product_name"],
                                     serial |-> properties["serial"]]]
                  /\ IF chk.raised
                     THEN /\ result' = [result EXCEPT ![f] = AsyncAbort("already_configured")]
                          /\ pc' = [pc EXCEPT ![f] = PcAfter(result'[f])]
                          /\ UNCHANGED <<ip_address, energy_api>>
                     ELSE /\ ip_address' = [ip_address EXCEPT ![f] = discovery_info.host]
                          /\ energy_api' = [energy_api EXCEPT ![f] = ProbeOpen(@)]
                          /\ pc' = [pc EXCEPT ![f] = "zeroconf_probe"]
                          /\ UNCHANGED result
    /\ UNCHANGED started

\* async_step_zeroconf up to its return or up to the await of the probe
AsyncStepZeroconf(f, discovery_info) ==
    /\ pc[f] = "start"
    /\ context[f].source = NoneStr
    /\ LET properties == discovery_info.properties
           early == ValidateDiscovery(properties)
       IN IF early # NoneStr
          THEN /\ result' = [result EXCEPT ![f] = AsyncAbort(early)]
               /\ pc' = [pc EXCEPT ![f] = PcAfter(result'[f])]
               /\ context' = [context EXCEPT ![f].source = "zeroconf"]
               /\ UNCHANGED <<entries, ip_address, energy_api>>
          ELSE LET chk == SetAndCheckUniqueId(entries,
                            [ip_address |-> discovery_info.host,
                             product_type |-> properties["product_type"],
                             serial |-> properties["serial"]])
               IN /\ context' = [context EXCEPT ![f].source = "zeroconf",
                                                ![f].unique_id = chk.unique_id]
                  /\ entries' = chk.entries
                  /\ IF chk.raised
                     THEN /\ result' = [result EXCEPT ![f] = AsyncAbort("already_configured")]
                          /\ pc' = [pc EXCEPT ![f] = PcAfter(result'[f])]
                          /\ UNCHANGED <<ip_address, energy_api>>
                     ELSE /\ ip_address' = [ip_address EXCEPT ![f] = discovery_info.host]
                          /\ energy_api' = [energy_api EXCEPT ![f] = ProbeOpen(@)]
                          /\ pc' = [pc EXCEPT ![f] = "zeroconf_probe"]
                          /\ UNCHANGED result
    /\ UNCHANGED <<config, started>>

\* the discovery step creating the entry itself once the probe has succeeded
AsyncStepZeroconfResumeCreating(f, outcome, device) ==
    /\ pc[f] = "zeroconf_probe"
    /\ energy_api' = [energy_api EXCEPT ![f] = ProbeClose(@, outcome)]
    /\ ip_address' = [ip_address EXCEPT ![f] = NoneStr]
    /\ LET fetched == TryConnectAndFetch(outcome, device)
       IN IF fetched.raised
          THEN /\ result' = [result EXCEPT ![f] = AsyncAbort(fetched.reason)]
               /\ UNCHANGED <<config, context, entries>>
          ELSE LET device_info == fetched.value
                   staged == [ip_address |-> ip_address[f],
                              product_type |-> device_info[CONF_PRODUCT_TYPE],
                              product_name |-> device_info[CONF_PRODUCT_NAME],
                              serial |-> device_info[CONF_SERIAL]]
                   confirm == DiscoveryConfirm(staged, context[f], EmptyConfig)
               IN /\ config' = [config EXCEPT ![f] = staged]
                  /\ context' = [context EXCEPT ![f] = confirm.context]
                  /\ result' = [result EXCEPT ![f] = confirm.result]
                  /\ entries' = StoreAdd(entries, context[f].unique_id, confirm.result)
    /\ pc' = [pc EXCEPT ![f] = PcAfter(result'[f])]
    /\ UNCHANGED started

\* async_step_zeroconf from the end of initialize() to its return, the call of
\* async_step_discovery_confirm() included
AsyncStepZeroconfResume(f, outcome, device) ==
    /\ pc[f] = "zeroconf_probe"
    /\ energy_api' = [energy_api EXCEPT ![f] = ProbeClose(@, outcome)]
    /\ ip_address' = [ip_address EXCEPT ![f] = NoneStr]
    /\ LET fetched == TryConnectAndFetch(outcome, device)
       IN IF fetched.raised
          THEN /\ result' = [result EXCEPT ![f] = AsyncAbort(fetched.reason)]
               /\ UNCHANGED <<config, context>>
          ELSE LET device_info == fetched.value
                   staged == [ip_address |-> ip_address[f],
                              product_type |-> device_info[CONF_PRODUCT_TYPE],
                              product_name |-> device_info[CONF_PRODUCT_NAME],
                              serial |-> device_info[CONF_SERIAL]]
                   confirm == DiscoveryConfirm(staged, context[f], None)
               IN /\ config' = [config EXCEPT ![f] = staged]
                  /\ context' = [context EXCEPT ![f] = confirm.context]
                  /\ result' = [result EXCEPT ![f] = confirm.result]
    /\ pc' = [pc EXCEPT ![f] = PcAfter(result'[f])]
    /\ UNCHANGED <<entries, started>>

\* the confirmation step resetting self.config once it has created the entry
AsyncStepDiscoveryConfirmClearing(f, user_input) ==
    /\ pc[f] = "awaiting_discovery_confirmation"
    /\ LET confirm == DiscoveryConfirm(config[f], context[f], user_input)
       IN /\ context' = [context EXCEPT ![f] = confirm.context]
          /\ result' = [result EXCEPT ![f] = confirm.result]
          /\ entries' = IF confirm.result.type = "create_entry"
                        THEN StoreAdd(entries, context[f].unique_id, confirm.result)
                        ELSE entries
          /\ config' = IF confirm.result.type = "create_entry"
                       THEN [config EXCEPT ![f] = EmptyConfig]
                       ELSE config
    /\ pc' = [pc EXCEPT ![f] = PcAfter(result'[f])]
    /\ UNCHANGED <<ip_address, energy_api, started>>

\* async_step_discovery_confirm, called by the framework on the shown form
AsyncStepDiscoveryConfirm(f, user_input) ==
    /\ pc[f] = "awaiting_discovery_confirmation"
    /\ LET confirm == DiscoveryConfirm(config[f], context[f], user_input)
       IN /\ context' = [context EXCEPT ![f] = confirm.context]
          /\ result' = [result EXCEPT ![f] = confirm.result]
          /\ entries' = IF confirm.result.type = "create_entry"
                        THEN StoreAdd(entries, context[f].unique_id, confirm.result)
                        ELSE entries
    /\ pc' = [pc EXCEPT ![f] = PcAfter(result'[f])]
    /\ UNCHANGED <<config, ip_address, energy_api, started>>

\* the framework abandons a flow that waits for input (the user navigates away)
Abandon(f) ==
    /\ pc[f] \in {"awaiting_user_input", "awaiting_discovery_confirmation"}
    /\ pc' = [pc EXCEPT ![f] = "abandoned"]
    /\ UNCHANGED <<entries, config, context, result, ip_address, energy_api, started>>

\* a finished flow instance is dropped and a new one is constructed: __init__
NewFlow(f) ==
    /\ pc[f] \in {"completed", "aborted", "abandoned"}
    /\ started < MaxStarts
    /\ started' = started + 1
    /\ pc' = [pc EXCEPT ![f] = "start"]
    /\ config' = [config EXCEPT ![f] = EmptyConfig]
    /\ context' = [context EXCEPT ![f] = NoContext]
    /\ result' = [result EXCEPT ![f] = NoResult]
    /\ ip_address' = [ip_address EXCEPT ![f] = NoneStr]
    /\ energy_api' = [energy_api EXCEPT ![f] = NoApi]
    /\ UNCHANGED entries

\* the ways initialize() can end: a device is there only when it returned
ProbeEnds == ({"ok"} \X Devices) \cup ((InitOutcomes \ {"ok"}) \X {None})

Next ==
    \/ \E f \in Flows, user_input \in UserInputs : AsyncStepUser(f, user_input)
    \/ \E f \in Flows, e \in ProbeEnds : AsyncStepUserResume(f, e[1], e[2])
    \/ \E f \in Flows, discovery_info \in Announcements : AsyncStepZeroconf(f, discovery_info)
    \/ \E f \in Flows, e \in ProbeEnds : AsyncStepZeroconfResume(f, e[1], e[2])
    \/ \E f \in Flows, user_input \in ConfirmInputs : AsyncStepDiscoveryConfirm(f, user_input)
    \/ \E f \in Flows : Abandon(f)
    \/ \E f \in Flows : NewFlow(f)

Spec == Init /\ [][Next]_vars

TypeOK ==
    /\ \A e \in entries : e.data[CONF_IP_ADDRESS] \in Addresses
    /\ \A f \in Flows :
        /\ pc[f] \in {"start", "awaiting_user_input", "user_probe", "zeroconf_probe",
                      "awaiting_discovery_confirmation", "completed", "aborted",
                      "abandoned"}
        /\ result[f].type \in {"none", "form", "create_entry", "abort"}
        /\ energy_api[f].opens \in 0..1

\* ------------------------------------------------------------------------
\* Properties
\* ------------------------------------------------------------------------

\* initialize() returned and the descriptor passes every check of the probe
ProbeSucceeds(outcome, device) ==
    /\ outcome = "ok"
    /\ device \in Descriptors
    /\ device.api_version = "v1"
    /\ device.product_type \in SUPPORTED_DEVICES

\* the ends of initialize() after which the probe succeeds
SuccessfulEnds ==
    {"ok"} \X [api_version : {"v1"},
               product_type : DeviceProductTypes \cap SUPPORTED_DEVICES,
               product_name : ProductNames, serial : Serials]

\* the announcements with all five properties, a path among paths and an
\* api_enabled among enabled
CompleteAnnouncements(paths, enabled) ==
    [host : Addresses,
     properties : [api_enabled : enabled, path : paths,
                   product_name : PropertyValues("product_name"),
                   product_type : PropertyValues("product_type"),
                   serial : PropertyValues("serial")]]

\* the announcements with the five properties, path "/api/v1" and api_enabled "1"
ValidAnnouncements == CompleteAnnouncements({"/api/v1"}, {"1"})

\* the announcements with the five properties and another path
WrongPathAnnouncements ==
    CompleteAnnouncements(PropertyValues("path") \ {"/api/v1"}, PropertyValues("api_enabled"))

\* the announcements with the five properties, path "/api/v1", another api_enabled
DisabledAnnouncements ==
    CompleteAnnouncements({"/api/v1"}, PropertyValues("api_enabled") \ {"1"})

\* the announcements lacking at least one of the five properties
IncompleteAnnouncements ==
    {di \in Announcements : ~(RequiredProperties \subseteq DOMAIN di.properties)}

\* the four classes are the announcements of the model, each in one class, and
\* the successful ends are the ends that pass every check of the probe
InputClassesOK ==
    /\ ValidAnnouncements \cup WrongPathAnnouncements \cup DisabledAnnouncements
            \cup IncompleteAnnouncements = Announcements
    /\ Cardinality(ValidAnnouncements) + Cardinality(WrongPathAnnouncements)
            + Cardinality(DisabledAnnouncements) + Cardinality(IncompleteAnnouncements)
        = Cardinality(Announcements)
    /\ SuccessfulEnds = {e \in ProbeEnds : ProbeSucceeds(e[1], e[2])}

\* flow f is the flow that takes this step, out of the position at
Leaves(f, at) == pc[f] = at /\ pc'[f] # at

HasRecord(key) == \E r \in entries : r.unique_id = key

\* the step of flow f that ends now aborted as already configured, created
\* nothing, and left the record of key with the address addr
AlreadyConfiguredOutcome(f, key, addr) ==
    /\ result'[f] = [type |-> "abort", reason |-> "already_configured"]
    /\ pc'[f] = "aborted"
    /\ Cardinality(entries') = Cardinality(entries)
    /\ \A r \in entries :
        IF r.unique_id = key
        THEN [unique_id |-> key, title |-> r.title, data |-> [ip_address |-> addr]]
                \in entries'
        ELSE r \in entries'

\* C1: on the user path, when the probe of the supplied address succeeds and
\* no record is registered under "{product_type}_{serial}" of the probe result,
\* the flow completes and exactly one record is created, titled
\* "{product_name} ({serial})", whose data is exactly the supplied address.
C1_UserPathCreatesOneRecord ==
    [][\A f \in {g \in Flows : Leaves(g, "user_probe")}, e \in SuccessfulEnds :
        LET d == e[2]
            key == d.product_type \o "_" \o d.serial
            title == d.product_name \o " (" \o d.serial \o ")"
            data == [ip_address |-> ip_address[f]]
        IN (AsyncStepUserResume(f, e[1], d) /\ ~HasRecord(key))
            => /\ pc'[f] = "completed"
               /\ result'[f] = [type |-> "create_entry", title |-> title, data |-> data]
               /\ entries' = entries \cup {[unique_id |-> key, title |-> title, data |-> data]}
               /\ Cardinality(entries') = Cardinality(entries) + 1]_vars

\* a user flow has completed and its record is in the store
C1_Witness ==
    \E f \in Flows :
        /\ context[f].source = "user"
        /\ pc[f] = "completed"
        /\ result[f].type = "create_entry"
        /\ \E r \in entries :
            /\ r.unique_id = context[f].unique_id
            /\ r.title = result[f].title
            /\ r.data = result[f].data

\* C2: when the identity check of either path finds a record registered under
\* the identity key (the key of the probe result on the user path, of the
\* announcement on the discovery path), the flow aborts as already configured,
\* no record is created, and that record's address becomes the address of the
\* new attempt (the supplied address, resp. the announcement's host).
C2_AlreadyConfiguredAbortsAndUpdates ==
    [][\A f \in {g \in Flows : Leaves(g, "user_probe") \/ Leaves(g, "start")} :
        /\ \A e \in SuccessfulEnds :
            LET key == e[2].product_type \o "_" \o e[2].serial
            IN (AsyncStepUserResume(f, e[1], e[2]) /\ HasRecord(key))
                => AlreadyConfiguredOutcome(f, key, ip_address[f])
        /\ \A di \in ValidAnnouncements :
            LET key == di.properties["product_type"] \o "_" \o di.properties["serial"]
            IN (AsyncStepZeroconf(f, di) /\ HasRecord(key))
                => AlreadyConfiguredOutcome(f, key, di.host)]_vars

\* a user flow and a discovery flow have both aborted as already configured,
\* and the record holds an address other than the one it was created with
C2_Witness ==
    \E f \in Flows, g \in Flows :
        /\ context[f].source = "user"
        /\ context[g].source = "zeroconf"
        /\ result[f] = [type |-> "abort", reason |-> "already_configured"]
        /\ result[g] = [type |-> "abort", reason |-> "already_configured"]
        /\ HasRecord(context[f].unique_id)
        /\ HasRecord(context[g].unique_id)

\* C3: the store holds at most one record per identity key, and a flow whose
\* key already has a record never completes by creating a record: it aborts.
C3_SecondAttemptAborts ==
    [][/\ \A r1 \in entries', r2 \in entries' : r1.unique_id = r2.unique_id => r1 = r2
       /\ \A f \in Flows :
            (pc[f] # "completed" /\ pc'[f] = "completed")
                => ~HasRecord(context'[f].unique_id)]_vars

\* the discovery step of flow f that ends now aborted with reason, before any
\* identity check or probe: no unique id set, store and connections untouched
AbortedBeforeIdentityCheck(f, reason) ==
    /\ result'[f] = [type |-> "abort", reason |-> reason]
    /\ pc'[f] = "aborted"
    /\ entries' = entries
    /\ context'[f].unique_id = NoneStr
    /\ energy_api' = energy_api
    /\ energy_api[f].opens = 0

\* C4: a discovery announcement lacking at least one of api_enabled, path,
\* product_name, product_type, serial aborts the discovery step with
\* invalid_discovery_parameters; no record is created, no probe is run, no
\* identity key is claimed and no record's address changes.
C4_MissingPropertyAborts ==
    [][\A f \in {g \in Flows : Leaves(g, "start")} :
        \/ AbortedBeforeIdentityCheck(f, "invalid_discovery_parameters")
        \/ \A di \in IncompleteAnnouncements : ~AsyncStepZeroconf(f, di)]_vars

\* a discovery flow was aborted for its parameters while the store holds a record
C4_Witness ==
    \E f \in Flows :
        /\ context[f].source = "zeroconf"
        /\ result[f] = [type |-> "abort", reason |-> "invalid_discovery_parameters"]
        /\ context[f].unique_id = NoneStr
        /\ energy_api[f].opens = 0
        /\ entries # {}

\* C5: an announcement with all five properties and a path other than
\* "/api/v1" aborts the discovery step with unsupported_api_version, whatever
\* api_enabled is, before any identity check or probe.
C5_WrongPathAborts ==
    [][\A f \in {g \in Flows : Leaves(g, "start")} :
        \/ AbortedBeforeIdentityCheck(f, "unsupported_api_version")
        \/ \A di \in WrongPathAnnouncements : ~AsyncStepZeroconf(f, di)]_vars

\* a discovery flow was aborted for the API version without having probed
C5_Witness ==
    \E f \in Flows :
        /\ context[f].source = "zeroconf"
        /\ result[f] = [type |-> "abort", reason |-> "unsupported_api_version"]
        /\ context[f].unique_id = NoneStr
        /\ energy_api[f].opens = 0

\* C6: an announcement with all five properties, path "/api/v1" and an
\* api_enabled other than the string "1" aborts the discovery step with
\* api_not_enabled, before any identity check or probe.
C6_ApiNotEnabledAborts ==
    [][\A f \in {g \in Flows : Leaves(g, "start")} :
        \/ AbortedBeforeIdentityCheck(f, "api_not_enabled")
        \/ \A di \in DisabledAnnouncements : ~AsyncStepZeroconf(f, di)]_vars

\* a discovery flow was aborted for the disabled API without having probed
C6_Witness ==
    \E f \in Flows :
        /\ context[f].source = "zeroconf"
        /\ result[f] = [type |-> "abort", reason |-> "api_not_enabled"]
        /\ context[f].unique_id = NoneStr
        /\ energy_api[f].opens = 0

\* the abort reason the probe error mapping gives an initialization that ended
\* with outcome and device, "" when the claim names none
MappedReason(outcome, device) ==
    IF outcome \in {"timeout", "error"} THEN "unknown_error"
    ELSE IF outcome = "disabled" THEN "api_not_enabled"
    ELSE IF device \in Descriptors /\ device.api_version # "v1"
        THEN "unsupported_api_version"
    ELSE IF device \in Descriptors /\ device.product_type \notin SUPPORTED_DEVICES
        THEN "device_not_supported"
    ELSE ""

\* C7: a probe whose initialization times out or fails otherwise aborts the
\* flow with unknown_error, a disabled-API signal with api_not_enabled, a
\* descriptor with api_version other than "v1" with unsupported_api_version, a
\* descriptor of an unsupported product type with device_not_supported; only
\* when none of these holds does the step go on with the descriptor's product
\* name, product type and serial.
C7_ProbeErrorMapping ==
    [][\A f \in {g \in Flows : Leaves(g, "user_probe") \/ Leaves(g, "zeroconf_probe")},
         e \in ProbeEnds :
        LET o == e[1]
            d == e[2]
            reason == MappedReason(o, d)
        IN /\ (AsyncStepUserResume(f, o, d) \/ AsyncStepZeroconfResume(f, o, d))
                => /\ reason # ""
                        => /\ result'[f] = [type |-> "abort", reason |-> reason]
                           /\ pc'[f] = "aborted"
                           /\ config'[f] = config[f]
                           /\ context'[f] = context[f]
                   /\ ProbeSucceeds(o, d) <=> pc'[f] # "aborted" \/ result'[f].reason = "already_configured"
           /\ (AsyncStepUserResume(f, o, d) /\ ProbeSucceeds(o, d))
                => /\ context'[f].unique_id = d.product_type \o "_" \o d.serial
                   /\ result'[f].type = "create_entry"
                        => result'[f].title = d.product_name \o " (" \o d.serial \o ")"
           /\ (AsyncStepZeroconfResume(f, o, d) /\ ProbeSucceeds(o, d))
                => config'[f] = [ip_address |-> ip_address[f],
                                 product_type |-> d.product_type,
                                 product_name |-> d.product_name,
                                 serial |-> d.serial]]_vars

\* one flow was aborted for an unsupported device and another for a disabled API
\* reported by the device itself
C7_Witness ==
    \E f \in Flows, g \in Flows :
        /\ result[f] = [type |-> "abort", reason |-> "device_not_supported"]
        /\ energy_api[f].opens = 1
        /\ result[g] = [type |-> "abort", reason |-> "api_not_enabled"]
        /\ energy_api[g].opens = 1

\* C8: every probe attempt closes its connection exactly once whatever the
\* outcome, before the step returns: a flow that is not suspended in a probe
\* has no open connection and as many closes as probes; a flow suspended in a
\* probe has the one connection of that probe open.
C8_ProbeConnectionClosed ==
    \A f \in Flows :
        IF pc[f] \in {"user_probe", "zeroconf_probe"}
        THEN /\ energy_api[f].open
             /\ energy_api[f].opens = energy_api[f].closes + 1
        ELSE /\ ~energy_api[f].open
             /\ energy_api[f].closes = energy_api[f].opens

\* a flow whose probe failed has returned an abort, and a flow that probed was
\* abandoned at the confirmation step; both connections are closed
C8_Witness ==
    \E f \in Flows, g \in Flows :
        /\ result[f] = [type |-> "abort", reason |-> "unknown_error"]
        /\ energy_api[f] = [opens |-> 1, closes |-> 1, open |-> FALSE]
        /\ pc[g] = "abandoned"
        /\ energy_api[g] = [opens |-> 1, closes |-> 1, open |-> FALSE]

\* the confirm-only form of flow f, built from its staged configuration, is
\* what the flow last returned
ConfirmFormShown(f) ==
    /\ result[f] = [type |-> "form", step_id |-> "discovery_confirm",
                    data_schema |-> None,
                    description_placeholders |->
                        [product_type |-> config[f]["product_type"],
                         serial |-> config[f]["serial"],
                         ip_address |-> config[f]["ip_address"]]]
    /\ context[f].title_placeholders =
            [name |-> config[f]["product_name"] \o " (" \o config[f]["serial"] \o ")"]
    /\ context[f].confirm_only

\* C9: the confirmation step invoked with no input, any number of times in a
\* row, returns each time the same confirm-only form built from the staged
\* data, creates no record and leaves the staged configuration and the store
\* unchanged: a flow awaiting confirmation always shows that form, and a
\* no-input invocation changes nothing.
C9_ConfirmNoInputIdempotent ==
    [][\A f \in Flows :
        /\ pc'[f] = "awaiting_discovery_confirmation" => ConfirmFormShown(f)'
        /\ AsyncStepDiscoveryConfirm(f, None)
            => /\ ConfirmFormShown(f)'
               /\ UNCHANGED <<entries, pc, config, context, result>>]_vars

\* a discovery flow awaits confirmation with its form shown
C9_Witness ==
    \E f \in Flows :
        /\ pc[f] = "awaiting_discovery_confirmation"
        /\ ConfirmFormShown(f)
        /\ ENABLED AsyncStepDiscoveryConfirm(f, None)

\* C10: the confirmation step invoked with any input other than None, the
\* empty mapping included, completes the flow and creates exactly one record,
\* titled "{product_name} ({serial})" from the staged data, whose data is
\* exactly the staged address; the step runs no probe and no identity check.
\* No such invocation does anything else (it cannot leave the flow waiting).
C10_ConfirmWithInputCreates ==
    [][\A f \in Flows, user_input \in ConfirmInputs \ {None} :
        /\ pc[f] = "awaiting_discovery_confirmation"
            => ~ENABLED (AsyncStepDiscoveryConfirm(f, user_input) /\ pc'[f] # "completed")
        /\ AsyncStepDiscoveryConfirm(f, user_input)
            => LET title == config[f]["product_name"] \o " (" \o config[f]["serial"] \o ")"
                   data == [ip_address |-> config[f]["ip_address"]]
                   record == [unique_id |-> context[f].unique_id,
                              title |-> title, data |-> data]
               IN /\ pc'[f] = "completed"
                  /\ result'[f] = [type |-> "create_entry", title |-> title, data |-> data]
                  /\ entries' = {r \in entries : r.unique_id # record.unique_id}
                                    \cup {record}
                  /\ context'[f] = context[f]
                  /\ energy_api' = energy_api]_vars

\* a discovery flow has completed and its record is in the store
C10_Witness ==
    \E f \in Flows :
        /\ context[f].source = "zeroconf"
        /\ pc[f] = "completed"
        /\ [unique_id |-> context[f].unique_id,
            title |-> config[f]["product_name"] \o " (" \o config[f]["serial"] \o ")",
            data |-> [ip_address |-> config[f]["ip_address"]]] \in entries

StagedKeys == {CONF_IP_ADDRESS, CONF_PRODUCT_TYPE, CONF_PRODUCT_NAME, CONF_SERIAL}

\* C11 as stated: once the confirmation step has returned a created record, or
\* the flow has otherwise ended, the flow instance's staged configuration no
\* longer holds the staged address, product type, product name and serial.
C11_StagedConfigDiscarded ==
    \A f \in Flows :
        pc[f] \in {"completed", "aborted", "abandoned"} => config[f] = EmptyConfig

\* C11, amended: the confirmation step never clears the staged configuration.
\* When a flow awaiting confirmation completes or is abandoned, self.config
\* still holds the four staged fields, unchanged; they go only with the flow
\* instance: a newly constructed instance has an empty configuration.
C11_StagedConfigKeptUntilInstanceDropped ==
    [][\A f \in Flows :
        /\ (pc[f] = "awaiting_discovery_confirmation"
                /\ pc'[f] \in {"completed", "abandoned"})
            => /\ DOMAIN config'[f] = StagedKeys
               /\ config'[f] = config[f]
        /\ (pc[f] # "start" /\ pc'[f] = "start") => config'[f] = EmptyConfig]_vars

\* a discovery flow has completed and another was abandoned at the confirmation
\* step, and both still hold their staged configuration
C11_Witness ==
    \E f \in Flows, g \in Flows :
        /\ context[f].source = "zeroconf"
        /\ pc[f] = "completed"
        /\ DOMAIN config[f] = StagedKeys
        /\ result[f].data = [ip_address |-> config[f]["ip_address"]]
        /\ pc[g] = "abandoned"
        /\ DOMAIN config[g] = StagedKeys

\* the reason codes of section 6, the store's "already configured" included
FixedReasons ==
    {"invalid_discovery_parameters", "unsupported_api_version", "api_not_enabled",
     "unknown_error", "device_not_supported", "already_configured"}

\* the records of es without their data: what exists, whatever its address
RecordsHeld(es) == {[unique_id |-> r.unique_id, title |-> r.title] : r \in es}

\* C12: every failure of a step is an abort whose reason is one of the fixed
\* codes; a flow that aborts creates no record; no failure is retried: a step
\* opens at most one probe, the flow at most one, and the step that ends a
\* failed probe aborts without opening another.
C12_FailuresAbortWithFixedReason ==
    [][\A f \in Flows :
        /\ result'[f].type = "abort"
            => /\ result'[f].reason \in FixedReasons
               /\ pc'[f] = "aborted"
        /\ (pc[f] # "aborted" /\ pc'[f] = "aborted")
            => /\ result'[f].type = "abort"
               /\ RecordsHeld(entries') = RecordsHeld(entries)
               /\ Cardinality(entries') = Cardinality(entries)
        /\ energy_api'[f].opens <= 1
        /\ (Leaves(f, "user_probe") \/ Leaves(f, "zeroconf_probe"))
            => energy_api'[f].opens = energy_api[f].opens]_vars

\* a user flow whose one probe succeeded was aborted as already configured, and
\* a flow whose one probe failed was aborted with unknown_error
C12_Witness ==
    \E f \in Flows, g \in Flows :
        /\ context[f].source = "user"
        /\ result[f] = [type |-> "abort", reason |-> "already_configured"]
        /\ energy_api[f].opens = 1
        /\ pc[g] = "aborted"
        /\ result[g] = [type |-> "abort", reason |-> "unknown_error"]
        /\ energy_api[g].opens = 1
        /\ entries # {}

\* C13: on the discovery path the identity check runs before the probe, on the
\* announcement's product type, serial and host.  When the announced key has a
\* record, the flow aborts as already configured and the record's address
\* becomes the announced host without any connection being opened; when it has
\* none, the key is claimed by the time the probe is opened.
C13_DiscoveryChecksIdentityBeforeProbe ==
    [][\A f \in {g \in Flows : Leaves(g, "start")}, di \in ValidAnnouncements :
        LET key == di.properties["product_type"] \o "_" \o di.properties["serial"]
        IN AsyncStepZeroconf(f, di)
            => IF HasRecord(key)
               THEN /\ AlreadyConfiguredOutcome(f, key, di.host)
                    /\ context'[f].unique_id = key
                    /\ energy_api' = energy_api
                    /\ energy_api[f] = NoApi
               ELSE /\ pc'[f] = "zeroconf_probe"
                    /\ context'[f].unique_id = key
                    /\ energy_api'[f] = [opens |-> 1, closes |-> 0, open |-> TRUE]
                    /\ ip_address'[f] = di.host
                    /\ entries' = entries]_vars

\* a discovery flow was aborted as already configured without ever having
\* opened a connection, and the record of its key is in the store
C13_Witness ==
    \E f \in Flows :
        /\ context[f].source = "zeroconf"
        /\ result[f] = [type |-> "abort", reason |-> "already_configured"]
        /\ energy_api[f] = NoApi
        /\ HasRecord(context[f].unique_id)

\* the ends of initialize() after which the probe fails
FailedEnds == ProbeEnds \ SuccessfulEnds

\* the reason the probe fails with: the mapped one, unknown_error when
\* initialize() returned without a descriptor
FailedReason(outcome, device) ==
    IF MappedReason(outcome, device) # "" THEN MappedReason(outcome, device)
    ELSE "unknown_error"

\* C14: on the user path the probe runs before the identity check: a flow
\* suspended in the probe has claimed no key, and when the probe of the
\* supplied address fails, the flow aborts with the probe's reason and the
\* store is left as it was: no key claimed, no address updated, no record
\* created.
C14_UserProbeFailureLeavesStore ==
    [][\A f \in Flows :
        /\ pc'[f] = "user_probe" => context'[f].unique_id = NoneStr
        /\ Leaves(f, "user_probe")
            => \A e \in FailedEnds :
                AsyncStepUserResume(f, e[1], e[2])
                    => /\ result'[f] = [type |-> "abort",
                                        reason |-> FailedReason(e[1], e[2])]
                       /\ pc'[f] = "aborted"
                       /\ entries' = entries
                       /\ context'[f].unique_id = NoneStr]_vars

\* a user flow was aborted for an unsupported device, with no key claimed,
\* while the store holds a record
C14_Witness ==
    \E f \in Flows :
        /\ context[f].source = "user"
        /\ result[f] = [type |-> "abort", reason |-> "device_not_supported"]
        /\ context[f].unique_id = NoneStr
        /\ energy_api[f].closes = 1
        /\ entries # {}

\* C15: after initialize() has returned, the descriptor checks apply in a
\* fixed order on both paths: no descriptor gives unknown_error, otherwise an
\* API version other than "v1" gives unsupported_api_version, otherwise an
\* unsupported product type gives device_not_supported; a descriptor with both
\* faults aborts with unsupported_api_version.
C15_DescriptorCheckOrder ==
    [][\A f \in {g \in Flows : Leaves(g, "user_probe") \/ Leaves(g, "zeroconf_probe")},
         d \in Devices :
        (AsyncStepUserResume(f, "ok", d) \/ AsyncStepZeroconfResume(f, "ok", d))
            => IF d = None
               THEN result'[f] = [type |-> "abort", reason |-> "unknown_error"]
               ELSE IF d.api_version # "v1"
               THEN result'[f] = [type |-> "abort", reason |-> "unsupported_api_version"]
               ELSE IF d.product_type \notin SUPPORTED_DEVICES
               THEN result'[f] = [type |-> "abort", reason |-> "device_not_supported"]
               ELSE result'[f].type = "abort" => result'[f].reason = "already_configured"]_vars

\* the descriptors with both faults are among the inputs, one flow was aborted
\* by its probe for the API version and another for the product type
C15_Witness ==
    \E f \in Flows, g \in Flows :
        /\ \E d \in Descriptors :
            d.api_version # "v1" /\ d.product_type \notin SUPPORTED_DEVICES
        /\ result[f] = [type |-> "abort", reason |-> "unsupported_api_version"]
        /\ energy_api[f] = [opens |-> 1, closes |-> 1, open |-> FALSE]
        /\ result[g] = [type |-> "abort", reason |-> "device_not_supported"]
        /\ energy_api[g] = [opens |-> 1, closes |-> 1, open |-> FALSE]

\* C16: on the discovery path the identity key claimed for the flow equals
\* "{product_type}_{serial}" of the staged configuration from which the title
\* of its record is built, whatever the announcement and the probe say.
C16_IdentityKeyMatchesStagedConfig ==
    \A f \in Flows :
        (/\ context[f].source = "zeroconf"
         /\ pc[f] \in {"awaiting_discovery_confirmation", "completed"}
         /\ DOMAIN config[f] = StagedKeys)
            => context[f].unique_id =
                   UniqueId(config[f])

\* the unique ids under which the store holds a record
RecordKeys(es) == {r.unique_id : r \in es}

\* C17: a discovery-initiated flow creates no record without confirmation:
\* the discovery step returns only an abort or the confirm-only form and
\* creates no record, the probe is started only by a valid announcement whose
\* key has no record, the confirmation is awaited only after a successful
\* probe with the confirm form shown, and the flow completes (and only then
\* holds a create_entry result) only by a confirmation step called with input
\* while the form is shown.
C17_DiscoveryNeedsConfirmation ==
    [][\A f \in {g \in Flows : context'[g].source = "zeroconf"} :
        /\ (pc[f] \in {"start", "zeroconf_probe"} /\ pc'[f] # pc[f])
            => /\ result'[f].type \in {"none", "abort", "form"}
               /\ result'[f].type = "form" => ConfirmFormShown(f)'
               /\ RecordKeys(entries') = RecordKeys(entries)
        /\ result'[f].type = "create_entry" => pc'[f] = "completed"
        /\ (pc[f] # "zeroconf_probe" /\ pc'[f] = "zeroconf_probe")
            => /\ pc[f] = "start"
               /\ \E di \in ValidAnnouncements :
                    /\ AsyncStepZeroconf(f, di)
                    /\ ~HasRecord(UniqueId(di.properties))
        /\ (pc[f] # "awaiting_discovery_confirmation"
                /\ pc'[f] = "awaiting_discovery_confirmation")
            => /\ pc[f] = "zeroconf_probe"
               /\ \E e \in SuccessfulEnds : AsyncStepZeroconfResume(f, e[1], e[2])
               /\ ConfirmFormShown(f)'
        /\ (pc[f] # "completed" /\ pc'[f] = "completed")
            => /\ pc[f] = "awaiting_discovery_confirmation"
               /\ ConfirmFormShown(f)
               /\ \E user_input \in ConfirmInputs \ {None} :
                    AsyncStepDiscoveryConfirm(f, user_input)
               /\ HasRecord(context[f].unique_id)']_vars

\* a discovery flow completed and its record is held, while another discovery
\* flow has the confirm form shown and no record under its key
C17_Witness ==
    \E f \in Flows, g \in Flows :
        /\ context[f].source = "zeroconf"
        /\ pc[f] = "completed"
        /\ result[f].type = "create_entry"
        /\ HasRecord(context[f].unique_id)
        /\ context[g].source = "zeroconf"
        /\ pc[g] = "awaiting_discovery_confirmation"
        /\ ConfirmFormShown(g)
        /\ ~HasRecord(context[g].unique_id)

\* C18: a flow that awaits the discovery confirmation has a staged
\* configuration of exactly the four fields, the address being the host of the
\* announcement and product type, product name and serial those of the
\* successful probe; in every flow state before that the staged configuration
\* is empty, and it stays empty on the user path and when the discovery step
\* aborts.
C18_StagedConfigOnlyWhenAwaitingConfirmation ==
    [][\A f \in Flows :
        /\ pc'[f] \in {"start", "awaiting_user_input", "user_probe", "zeroconf_probe"}
            => config'[f] = EmptyConfig
        /\ context'[f].source = "user" => config'[f] = EmptyConfig
        /\ (context'[f].source = "zeroconf" /\ pc'[f] = "aborted")
            => config'[f] = EmptyConfig
        /\ pc'[f] = "awaiting_discovery_confirmation"
            => DOMAIN config'[f] = StagedKeys
        /\ (pc[f] = "awaiting_discovery_confirmation"
                /\ pc'[f] = "awaiting_discovery_confirmation")
            => config'[f] = config[f]
        /\ Leaves(f, "start")
            => \A di \in ValidAnnouncements :
                (AsyncStepZeroconf(f, di) /\ pc'[f] = "zeroconf_probe")
                    => ip_address'[f] = di.host
        /\ Leaves(f, "zeroconf_probe")
            => /\ ip_address[f] \in Addresses
               /\ \A e \in SuccessfulEnds :
                    AsyncStepZeroconfResume(f, e[1], e[2])
                        => /\ pc'[f] = "awaiting_discovery_confirmation"
                           /\ config'[f] = [ip_address |-> ip_address[f],
                                            product_type |-> e[2].product_type,
                                            product_name |-> e[2].product_name,
                                            serial |-> e[2].serial]]_vars

\* a discovery flow awaits its confirmation with the four fields staged, the
\* serial being the probe's and not the announced one, while another flow
\* has finished after its probe with nothing staged
C18_Witness ==
    \E f \in Flows, g \in Flows :
        /\ pc[f] = "awaiting_discovery_confirmation"
        /\ DOMAIN config[f] = StagedKeys
        /\ config[f][CONF_IP_ADDRESS] \in Addresses
        /\ context[f].unique_id # UniqueId(config[f])
        /\ pc[g] \in {"completed", "aborted"}
        /\ context[g].source \in {"user", "zeroconf"}
        /\ energy_api[g].closes = 1
        /\ config[g] = EmptyConfig

====
